---- MODULE Spec2Model ----
(***************************************************************************)
(* A model of base/downloadHelper.py: the token bucket RateLimiter, the    *)
(* per-URL fetcher _download, and the coordinator download_batch with its  *)
(* staging directory and publish step.                                     *)
(*                                                                         *)
(* Spec    is a call of download_batch: the fetchers interleave line by    *)
(*         line, each running acquire() as one step.                       *)
(* SpecSeq is a RateLimiter called by one caller, call after call.         *)
(* SpecRL  is a RateLimiter called by several threads that interleave      *)
(*         between the lines of acquire().                                 *)
(* SpecGet is one session.get of _download with the retries of its adapter.*)
(* SpecExtract and SpecUnique are calls of _extract_filename and of        *)
(*         _get_unique_filename on arguments drawn from bounded sets.      *)
(*                                                                         *)
(* It also models base/renameHelper.py:                                    *)
(* SpecRen  is a call of batch_rename_with_duplicate on a source directory *)
(*          and a mapping drawn from bounded sets.                         *)
(* SpecPipe is download_batch from the moment its tasks have finished,     *)
(*          followed by batch_rename_with_duplicate on what it published.  *)
(*                                                                         *)
(* Time is a discrete clock of TicksPerSec ticks per second.  The float    *)
(* token count is kept exactly, in units of 1/TicksPerSec of a token, so   *)
(* that "elapsed * rate" is elapsedTicks * rate units, one whole token is  *)
(* TicksPerSec units and the cap "rate" is rate * TicksPerSec units.       *)
(*                                                                         *)
(* A directory is a record [exists, files]; files is a set of pairs        *)
(* <<name, content>> with at most one pair per name.  A file name is a     *)
(* sequence of numbers: <<b>> is the name "b.ext", <<b, 1>> is "b_1.ext",  *)
(* <<b, 1, 1>> is "b_1_1.ext"; <<0, t>> is the scratch file                *)
(* "temp_<uuid>.tmp" of fetcher t.  A content is the number of the URL     *)
(* whose body it is, 0 for a body that is not completely written, and a    *)
(* negative number for a file of the previous run.                         *)
(***************************************************************************)
EXTENDS Integers, Sequences, FiniteSets, TLC

\* ------------------------------------------------------------------ bounds
NumUrls == 2
NumNames == 1
OldFiles == 2
MaxClock == 1
MaxLimClock == 4
TicksPerSec == 2
MaxRate == 2
MaxCalls == 3
NumThreads == 2
MaxCopies == 2
MaxNameLen == 5
MaxSuffix == 2

\* ------------------------------------------------- program constants
BatchRate == 15
DefaultMaxWorkers == 8
RetryTotal == 3
\* mutant: os.path.exists(save_dir) as it was before line 44, on a first run
save_dir_existed_FirstRun == FALSE

\* line 46: save_dir_existed = True
save_dir_existed == TRUE

Urls == 1..NumUrls
Threads == 1..NumThreads

VARIABLES
  \* RateLimiter: self.rate (line 19), self.tokens (20), self.last (21), and
  \* the wall clock that time.time() reads (24)
  rate, tokens, last, clock,
  \* callers of acquire(): the calls begun and the value last returned; for
  \* each worker thread inside acquire() the line it is at, its now (24) and
  \* elapsed (25); the calls that returned True
  ncalls, ret, apc, anow, aelapsed, grants,
  \* _download, one per URL: the line it is at, the value of limiter.acquire()
  \* (94), filename (115), final_path (126), the value the future holds
  \* (130, 133), the exception raised in the try block; the shared lock (53)
  fpc, acq, fname, final, result, exc, lock,
  \* download_batch: the line it is at, its parameters max_workers and
  \* del_dir_existed (34), the directories tmpdir (51), source_subdir (68),
  \* target_path (69) and the backup (79), target_path as it was before the
  \* call, the failure lines printed (132), the value returned (nothing)
  cpc, max_workers, del_dir_existed, tmpd, subd, targetd, backupd, oldd,
  printed, retval,
  \* batch_rename_with_duplicate (renameHelper.py): the line it is at, the
  \* directories src_dir (5), dest_dir (17) and the backup (27), dest_dir as
  \* it was before the call, the parameters name_map and del_dir_existed (5),
  \* the list files of os.walk that is still to visit (34-35), file (35) and
  \* the part of new_names that is still to copy (41-44)
  rpc, src_dir, dest_dir, dest_backup, dest_old, name_map, ren_del_dir_existed,
  files, file, new_names,
  \* one session.get of _download (downloadHelper.py 98-112): where it is,
  \* whether the retrying adapter serves the URL (108), the retries left in
  \* the adapter's Retry object (103), the outcome of each request sent so far
  gpc, mounted, total, attempts,
  \* one call of a function without side effects: its arguments and the value
  \* it returned
  fn_args, fn_ret

limVars == <<rate, tokens, last, clock>>
callVars == <<ncalls, ret, apc, anow, aelapsed, grants>>
fetchVars == <<fpc, acq, fname, final, result, exc, lock>>
dirVars == <<tmpd, subd, targetd, backupd>>
coordVars == <<cpc, max_workers, del_dir_existed, oldd, printed, retval>>
renVars == <<rpc, src_dir, dest_dir, dest_backup, dest_old, name_map,
             ren_del_dir_existed, files, file, new_names>>
getVars == <<gpc, mounted, total, attempts>>
fnVars == <<fn_args, fn_ret>>
auxVars == <<renVars, getVars, fnVars>>
batchVars == <<limVars, callVars, fetchVars, dirVars, coordVars>>
vars == <<batchVars, auxVars>>

\* batch_rename_with_duplicate is not running
NoRename ==
  /\ rpc = "none"
  /\ src_dir = [exists |-> FALSE, files |-> {}]
  /\ dest_dir = [exists |-> FALSE, files |-> {}]
  /\ dest_backup = [exists |-> FALSE, files |-> {}]
  /\ dest_old = [exists |-> FALSE, files |-> {}]
  /\ name_map = << >>
  /\ ren_del_dir_existed = FALSE
  /\ files = << >>
  /\ file = << >>
  /\ new_names = << >>

\* no session.get is under way
NoGet ==
  /\ gpc = "none"
  /\ mounted = FALSE
  /\ total = 0
  /\ attempts = << >>

\* no function is being evaluated on its own
NoCall ==
  /\ fn_args = << >>
  /\ fn_ret = << >>

NoAux == NoRename /\ NoGet /\ NoCall

Min2(a, b) == IF a <= b THEN a ELSE b

\* ------------------------------------------------------------- RateLimiter
OneToken == TicksPerSec
Capacity(r) == r * TicksPerSec

\* line 25: elapsed = now - self.last
Elapsed(now, lst) == now - lst

\* mutant: the refill is not capped
Refill_NoCap(r, tk, el) == tk + el * r

\* line 26: min(self.rate, self.tokens + elapsed * self.rate)
Refill(r, tk, el) == Min2(Capacity(r), tk + el * r)

\* line 29: self.tokens >= 1
HasToken(tk) == tk >= OneToken

\* line 30: self.tokens -= 1
Decrement(tk) == tk - OneToken

\* acquire() run without interleaving: lines 24-32 in order
acquire(r, tk, lst, now) ==
  LET el == Elapsed(now, lst)
      tk26 == Refill(r, tk, el)
  IN  IF HasToken(tk26)
        THEN [tokens |-> Decrement(tk26), last |-> now, ret |-> TRUE]
        ELSE [tokens |-> tk26, last |-> now, ret |-> FALSE]

\* the wall clock advances
Tick ==
  /\ clock < MaxClock
  /\ clock' = clock + 1
  /\ UNCHANGED <<auxVars, rate, tokens, last, callVars, fetchVars, dirVars,
                 coordVars>>

\* ------------------------------------------------------------- directories
Absent == [exists |-> FALSE, files |-> {}]
Dir(fs) == [exists |-> TRUE, files |-> fs]
NamesOf(fs) == {p[1] : p \in fs}
ContentsOf(fs) == {p[2] : p \in fs}

\* os.path.exists(os.path.join(save_dir, name))
PathExists(d, n) == d.exists /\ n \in NamesOf(d.files)

\* open(path, 'wb'): creates the file, or truncates the one of that name
CreateFile(fs, n, c) == {p \in fs : p[1] # n} \cup {<<n, c>>}

\* os.rename(src, dst) of a file: dst is replaced if it exists
RenameFile(fs, src, dst) ==
  LET c == CHOOSE x \in ContentsOf({p \in fs : p[1] = src}) : TRUE
  IN  {p \in fs : p[1] # src /\ p[1] # dst} \cup {<<dst, c>>}

TempName(t) == <<0, t>>
DerivedNames == {<<b>> : b \in 1..NumNames} \cup {<<1, 1>>}
OldDir == Dir({<<<<i>>, 0 - i>> : i \in 1..OldFiles})

\* mutant: the name with the counter is not checked again
UniqueLoop_Once(d, base, new_name, counter) ==
  IF PathExists(d, new_name) THEN Append(base, counter) ELSE new_name

RECURSIVE UniqueLoop(_, _, _, _)
\* lines 165-173: the while loop of _get_unique_filename, from candidate
\* new_name with the next counter
UniqueLoop(d, base, new_name, counter) ==
  IF PathExists(d, new_name)
    THEN UniqueLoop(d, base, Append(base, counter), counter + 1)
    ELSE new_name

_get_unique_filename(d, filename) == UniqueLoop(d, filename, filename, 1)

\* ---------------------------------------------------------------- _download
\* the exceptions raised inside the try block, lines 110-127: "http" by
\* session.get or raise_for_status (no response, or a status of 400 and above),
\* "stream" by iter_content or f.write, "fs" by open or os.rename
Exceptions == {"http", "stream", "fs"}

\* mutant: the handler catches the HTTP errors only
Caught_HttpOnly(e) == e = "http"

\* line 131: except Exception
Caught(e) == e \in Exceptions

\* mutant: the rename is not guarded by the lock
LockFree_NoLock == TRUE

\* line 125: with lock (threading.Lock: free when no holder)
LockFree == lock = 0

Running == {t \in Urls : fpc[t] \notin {"new", "pending", "done"}}

\* a worker thread of the pool takes the queued task
F_Start(t) ==
  /\ fpc[t] = "pending"
  /\ Cardinality(Running) < max_workers
  /\ fpc' = [fpc EXCEPT ![t] = "L94"]
  /\ UNCHANGED <<auxVars, limVars, callVars, acq, fname, final, result, exc,
                 lock, dirVars, coordVars>>

\* line 94: limiter.acquire(), here run without interleaving
F_Acquire(t) ==
  /\ fpc[t] = "L94"
  /\ LET a == acquire(rate, tokens, last, clock)
     IN  /\ tokens' = a.tokens
         /\ last' = a.last
         /\ acq' = [acq EXCEPT ![t] = a.ret]
         /\ fpc' = [fpc EXCEPT ![t] = IF a.ret THEN "L111" ELSE "L95"]
  /\ UNCHANGED <<auxVars, rate, clock, callVars, fname, final, result, exc,
                 lock, dirVars, coordVars>>

\* line 95: time.sleep(0.1), once, then on to the request
F_Sleep(t) ==
  /\ fpc[t] = "L95"
  /\ fpc' = [fpc EXCEPT ![t] = "L111"]
  /\ UNCHANGED <<auxVars, limVars, callVars, acq, fname, final, result, exc,
                 lock, dirVars, coordVars>>

\* mutant: the scratch file is opened before the status is checked
F_Get_OpenFirst(t) ==
  /\ fpc[t] = "L111"
  /\ acq' = [acq EXCEPT ![t] = FALSE]
  /\ tmpd.exists
  /\ tmpd' = Dir(CreateFile(tmpd.files, TempName(t), 0))
  /\ \/ \E n \in DerivedNames :
          /\ fname' = [fname EXCEPT ![t] = n]
          /\ fpc' = [fpc EXCEPT ![t] = "L119"]
          /\ exc' = exc
     \/ /\ exc' = [exc EXCEPT ![t] = "http"]
        /\ fpc' = [fpc EXCEPT ![t] = "L131"]
        /\ fname' = fname
  /\ UNCHANGED <<auxVars, limVars, callVars, final, result, lock, subd,
                 targetd, backupd, coordVars>>

\* lines 111-115: session.get, raise_for_status, _extract_filename
F_Get(t) ==
  /\ fpc[t] = "L111"
  /\ acq' = [acq EXCEPT ![t] = FALSE]
  /\ \/ \E n \in DerivedNames :
          /\ fname' = [fname EXCEPT ![t] = n]
          /\ fpc' = [fpc EXCEPT ![t] = "L119"]
          /\ exc' = exc
     \/ /\ exc' = [exc EXCEPT ![t] = "http"]
        /\ fpc' = [fpc EXCEPT ![t] = "L131"]
        /\ fname' = fname
  /\ UNCHANGED <<auxVars, limVars, callVars, final, result, lock, dirVars,
                 coordVars>>

\* lines 116-119: open(temp_file, 'wb')
F_Open(t) ==
  /\ fpc[t] = "L119"
  /\ IF tmpd.exists
       THEN /\ tmpd' = Dir(CreateFile(tmpd.files, TempName(t), 0))
            /\ fpc' = [fpc EXCEPT ![t] = "L120"]
            /\ exc' = exc
       ELSE /\ exc' = [exc EXCEPT ![t] = "fs"]
            /\ fpc' = [fpc EXCEPT ![t] = "L131"]
            /\ tmpd' = tmpd
  /\ UNCHANGED <<auxVars, limVars, callVars, acq, fname, final, result, lock,
                 subd, targetd, backupd, coordVars>>

\* lines 120-122: the body is streamed into the scratch file, or the stream raises
F_Stream(t) ==
  /\ fpc[t] = "L120"
  /\ \/ /\ PathExists(tmpd, TempName(t))
        /\ tmpd' = Dir(CreateFile(tmpd.files, TempName(t), t))
        /\ fpc' = [fpc EXCEPT ![t] = "L125"]
        /\ exc' = exc
     \/ /\ exc' = [exc EXCEPT ![t] = "stream"]
        /\ fpc' = [fpc EXCEPT ![t] = "L131"]
        /\ tmpd' = tmpd
  /\ UNCHANGED <<auxVars, limVars, callVars, acq, fname, final, result, lock,
                 subd, targetd, backupd, coordVars>>

\* mutant: every task makes a lock of its own
F_Lock_OwnLock(t) ==
  /\ fpc[t] = "L125"
  /\ lock' = t
  /\ fpc' = [fpc EXCEPT ![t] = "L126"]
  /\ UNCHANGED <<auxVars, limVars, callVars, acq, fname, final, result, exc,
                 dirVars, coordVars>>

\* line 125: with lock
F_Lock(t) ==
  /\ fpc[t] = "L125"
  /\ LockFree
  /\ lock' = t
  /\ fpc' = [fpc EXCEPT ![t] = "L126"]
  /\ UNCHANGED <<auxVars, limVars, callVars, acq, fname, final, result, exc,
                 dirVars, coordVars>>

\* line 126: final_path = _get_unique_filename(save_dir, filename)
F_Resolve(t) ==
  /\ fpc[t] = "L126"
  /\ final' = [final EXCEPT ![t] = _get_unique_filename(tmpd, fname[t])]
  /\ fpc' = [fpc EXCEPT ![t] = "L127"]
  /\ UNCHANGED <<auxVars, limVars, callVars, acq, fname, result, exc, lock,
                 dirVars, coordVars>>

\* lines 127-130: os.rename(temp_file, final_path), the lock is released, return
\* True; or os.rename raises and the lock is released
F_Rename(t) ==
  /\ fpc[t] = "L127"
  /\ lock' = IF lock = t THEN 0 ELSE lock
  /\ final' = [final EXCEPT ![t] = << >>]
  /\ \/ /\ PathExists(tmpd, TempName(t))
        /\ tmpd' = Dir(RenameFile(tmpd.files, TempName(t), final[t]))
        /\ result' = [result EXCEPT ![t] = "True"]
        /\ fpc' = [fpc EXCEPT ![t] = "done"]
        /\ exc' = exc
     \/ /\ exc' = [exc EXCEPT ![t] = "fs"]
        /\ fpc' = [fpc EXCEPT ![t] = "L131"]
        /\ UNCHANGED <<tmpd, result>>
  /\ UNCHANGED <<auxVars, limVars, callVars, acq, fname, subd, targetd,
                 backupd, coordVars>>

\* lines 131-133: except Exception: print the failure, return False; an
\* exception the handler does not catch leaves _download and ends the future
F_Except(t) ==
  /\ fpc[t] = "L131"
  /\ fpc' = [fpc EXCEPT ![t] = "done"]
  /\ IF Caught(exc[t])
       THEN /\ result' = [result EXCEPT ![t] = "False"]
            /\ printed' = printed \cup {t}
       ELSE /\ result' = [result EXCEPT ![t] = "raised"]
            /\ printed' = printed
  /\ UNCHANGED <<auxVars, limVars, callVars, acq, fname, final, exc, lock,
                 dirVars,
                 cpc, max_workers, del_dir_existed, oldd, retval>>

\* ------------------------------------------------------------ download_batch
\* mutant: the coordinator waits only until the task has been started
FutureDone_Started(t) == fpc[t] \notin {"new", "pending"}

\* line 59: future.result() returns once the task has finished; the exit of
\* the executor's with block (shutdown(wait=True)) waits for the same
FutureDone(t) == fpc[t] = "done"

paramVars == <<max_workers, del_dir_existed, oldd, printed, retval>>

\* lines 55-57: every URL is submitted to the pool
C_Submit ==
  /\ cpc = "L56"
  /\ fpc' = [t \in Urls |-> "pending"]
  /\ cpc' = "L58"
  /\ UNCHANGED <<auxVars, limVars, callVars, acq, fname, final, result, exc,
                 lock, dirVars,
                 paramVars>>

\* lines 58-59: for future in futures: future.result(); the loop ends when
\* every task has finished.  result() re-raises the exception a task ended
\* with, which leaves both with blocks (the temporary directory is cleaned up)
\* and download_batch
C_Wait ==
  /\ cpc = "L58"
  /\ \A t \in Urls : FutureDone(t)
  /\ IF \E t \in Urls : result[t] = "raised"
       THEN /\ cpc' = "error"
            /\ tmpd' = Absent
       ELSE /\ cpc' = "L55"
            /\ tmpd' = tmpd
  /\ UNCHANGED <<auxVars, limVars, callVars, fetchVars, subd, targetd,
                 backupd, paramVars>>

\* line 55, leaving the with block: ThreadPoolExecutor.shutdown(wait=True)
C_ExitPool ==
  /\ cpc = "L55"
  /\ \A t \in Urls : FutureDone(t)
  /\ cpc' = "L62"
  /\ UNCHANGED <<auxVars, limVars, callVars, fetchVars, dirVars, paramVars>>

\* line 62: shutil.move(tmpdir, save_dir) moves the directory to
\* save_dir/<tmpdir name>: os.rename, or, when os.rename raises OSError (another
\* filesystem), copytree followed by rmtree of the source
C_Move ==
  /\ cpc = "L62"
  /\ tmpd.exists
  /\ \/ /\ subd' = tmpd
        /\ tmpd' = Absent
        /\ cpc' = "L66"
     \/ /\ subd' = Dir({})
        /\ tmpd' = tmpd
        /\ cpc' = IF tmpd.files = {} THEN "L62r" ELSE "L62c"
  /\ UNCHANGED <<auxVars, limVars, callVars, fetchVars, targetd, backupd,
                 paramVars>>

\* shutil.copytree inside shutil.move: one file after the other
C_Copy ==
  /\ cpc = "L62c"
  /\ \E p \in tmpd.files \ subd.files :
       /\ subd' = Dir(subd.files \cup {p})
       /\ cpc' = IF tmpd.files \ subd.files = {p} THEN "L62r" ELSE "L62c"
  /\ UNCHANGED <<auxVars, limVars, callVars, fetchVars, tmpd, targetd,
                 backupd, paramVars>>

\* shutil.rmtree(d): the files one after the other, then the directory
RmtreeStep(d) ==
  IF d.files = {} THEN {Absent} ELSE {Dir(d.files \ {p}) : p \in d.files}

\* shutil.rmtree of the source inside shutil.move
C_RmSrc ==
  /\ cpc = "L62r"
  /\ \E d \in RmtreeStep(tmpd) :
       /\ tmpd' = d
       /\ cpc' = IF d.exists THEN "L62r" ELSE "L66"
  /\ UNCHANGED <<auxVars, limVars, callVars, fetchVars, subd, targetd,
                 backupd, paramVars>>

\* mutant: the test of del_dir_existed is inverted
C_Check_Inverted ==
  /\ cpc = "L66"
  /\ cpc' = IF ~save_dir_existed THEN "done"
            ELSE IF ~targetd.exists THEN "L82"
            ELSE IF del_dir_existed THEN "L80"
            ELSE "L75"
  /\ UNCHANGED <<auxVars, limVars, callVars, fetchVars, dirVars, paramVars>>

\* lines 66-73: the branch on save_dir_existed, os.path.exists(target_path)
\* and del_dir_existed
C_Check ==
  /\ cpc = "L66"
  /\ cpc' = IF ~save_dir_existed THEN "done"
            ELSE IF ~targetd.exists THEN "L82"
            ELSE IF del_dir_existed THEN "L75"
            ELSE "L80"
  /\ UNCHANGED <<auxVars, limVars, callVars, fetchVars, dirVars, paramVars>>

\* line 75: shutil.rmtree(target_path)
C_Rmtree ==
  /\ cpc = "L75"
  /\ \E d \in RmtreeStep(targetd) :
       /\ targetd' = d
       /\ cpc' = IF d.exists THEN "L75" ELSE "L82"
  /\ UNCHANGED <<auxVars, limVars, callVars, fetchVars, tmpd, subd, backupd,
                 paramVars>>

\* lines 79-80: os.rename(target_path, <target>_backup_<timestamp>); renaming a
\* directory onto a directory that is not empty raises OSError
C_Backup ==
  /\ cpc = "L80"
  /\ IF backupd.exists /\ backupd.files # {}
       THEN /\ cpc' = "error"
            /\ UNCHANGED <<targetd, backupd>>
       ELSE /\ backupd' = targetd
            /\ targetd' = Absent
            /\ cpc' = "L82"
  /\ UNCHANGED <<auxVars, limVars, callVars, fetchVars, tmpd, subd, paramVars>>

\* mutant: the staged files are copied into the target one after the other
C_Rename_Copy ==
  /\ cpc = "L82"
  /\ IF subd.files \subseteq targetd.files
       THEN /\ cpc' = "done"
            /\ targetd' = Dir(targetd.files)
            /\ subd' = Absent
       ELSE /\ \E p \in subd.files \ targetd.files :
                 targetd' = Dir(targetd.files \cup {p})
            /\ UNCHANGED <<cpc, subd>>
  /\ UNCHANGED <<auxVars, limVars, callVars, fetchVars, tmpd, backupd,
                 paramVars>>

\* line 82: os.rename(source_subdir, target_path)
C_Rename ==
  /\ cpc = "L82"
  /\ IF ~subd.exists \/ (targetd.exists /\ targetd.files # {})
       THEN /\ cpc' = "error"
            /\ UNCHANGED <<subd, targetd>>
       ELSE /\ targetd' = subd
            /\ subd' = Absent
            /\ cpc' = "done"
  /\ UNCHANGED <<auxVars, limVars, callVars, fetchVars, tmpd, backupd,
                 paramVars>>

\* ----------------------------------------------------------- specification
\* download_batch has been called: lines 44-53 have run (the limiter is
\* constructed with zero tokens, the staging directory is created empty)
Init ==
  /\ rate = BatchRate
  /\ tokens = 0
  /\ last = 0
  /\ clock = 0
  /\ ncalls = 0
  /\ ret = FALSE
  /\ apc = [t \in Threads |-> "idle"]
  /\ anow = [t \in Threads |-> 0]
  /\ aelapsed = [t \in Threads |-> 0]
  /\ grants = 0
  /\ fpc = [t \in Urls |-> "new"]
  /\ acq = [t \in Urls |-> FALSE]
  /\ fname = [t \in Urls |-> << >>]
  /\ final = [t \in Urls |-> << >>]
  /\ result = [t \in Urls |-> "none"]
  /\ exc = [t \in Urls |-> "none"]
  /\ lock = 0
  /\ cpc = "L56"
  /\ max_workers \in {1, DefaultMaxWorkers}
  /\ del_dir_existed \in BOOLEAN
  /\ tmpd = Dir({})
  /\ subd = Absent
  /\ targetd \in {Absent, OldDir}
  /\ backupd = Absent
  /\ oldd = targetd
  /\ printed = {}
  /\ retval = << >>
  /\ NoAux

\* the clock matters while some fetcher has yet to call acquire()
TickBatch ==
  /\ \E t \in Urls : fpc[t] \in {"new", "pending", "L94"}
  /\ Tick

Next ==
  \/ TickBatch
  \/ \E t \in Urls : F_Start(t)
  \/ \E t \in Urls : F_Acquire(t)
  \/ \E t \in Urls : F_Sleep(t)
  \/ \E t \in Urls : F_Get(t)
  \/ \E t \in Urls : F_Open(t)
  \/ \E t \in Urls : F_Stream(t)
  \/ \E t \in Urls : F_Lock(t)
  \/ \E t \in Urls : F_Resolve(t)
  \/ \E t \in Urls : F_Rename(t)
  \/ \E t \in Urls : F_Except(t)
  \/ C_Submit
  \/ C_Wait
  \/ C_ExitPool
  \/ C_Move
  \/ C_Copy
  \/ C_RmSrc
  \/ C_Check
  \/ C_Rmtree
  \/ C_Backup
  \/ C_Rename

Spec == Init /\ [][Next]_vars

\* ------------------------------------------- RateLimiter, called on its own
\* the limiter is used outside a batch: no fetcher, no directory
NoBatch ==
  /\ fpc = [t \in Urls |-> "new"]
  /\ acq = [t \in Urls |-> FALSE]
  /\ fname = [t \in Urls |-> << >>]
  /\ final = [t \in Urls |-> << >>]
  /\ result = [t \in Urls |-> "none"]
  /\ exc = [t \in Urls |-> "none"]
  /\ lock = 0
  /\ cpc = "none"
  /\ max_workers = DefaultMaxWorkers
  /\ del_dir_existed = FALSE
  /\ tmpd = Absent
  /\ subd = Absent
  /\ targetd = Absent
  /\ backupd = Absent
  /\ oldd = Absent
  /\ printed = {}
  /\ retval = << >>

\* mutant: the bucket is full when the limiter is constructed
InitLim_Full ==
  /\ rate \in 1..MaxRate
  /\ tokens = Capacity(rate)
  /\ last = 0
  /\ clock = 0
  /\ ncalls = 0
  /\ ret = FALSE
  /\ apc = [t \in Threads |-> "idle"]
  /\ anow = [t \in Threads |-> 0]
  /\ aelapsed = [t \in Threads |-> 0]
  /\ grants = 0
  /\ NoBatch
  /\ NoAux

\* lines 18-21: RateLimiter(rate), constructed at time 0
InitLim ==
  /\ rate \in 1..MaxRate
  /\ tokens = 0
  /\ last = 0
  /\ clock = 0
  /\ ncalls = 0
  /\ ret = FALSE
  /\ apc = [t \in Threads |-> "idle"]
  /\ anow = [t \in Threads |-> 0]
  /\ aelapsed = [t \in Threads |-> 0]
  /\ grants = 0
  /\ NoBatch
  /\ NoAux

TickLim ==
  /\ clock < MaxLimClock
  /\ clock' = clock + 1
  /\ UNCHANGED <<auxVars, rate, tokens, last, callVars, fetchVars, dirVars,
                 coordVars>>

\* one caller: each call of acquire() returns before the next begins
SeqAcquire ==
  /\ ncalls < MaxCalls
  /\ LET a == acquire(rate, tokens, last, clock)
     IN  /\ tokens' = a.tokens
         /\ last' = a.last
         /\ ret' = a.ret
         /\ grants' = IF a.ret THEN grants + 1 ELSE grants
  /\ ncalls' = ncalls + 1
  /\ UNCHANGED <<auxVars, rate, clock, apc, anow, aelapsed, fetchVars,
                 dirVars, coordVars>>

NextSeq == TickLim \/ SeqAcquire

SpecSeq == InitLim /\ [][NextSeq]_vars

\* several worker threads inside acquire(), which takes no lock: a thread may
\* be preempted between any two lines
\* line 24: now = time.time()
T_L24(t) ==
  /\ apc[t] = "idle"
  /\ ncalls < MaxCalls
  /\ ncalls' = ncalls + 1
  /\ anow' = [anow EXCEPT ![t] = clock]
  /\ apc' = [apc EXCEPT ![t] = "L25"]
  /\ UNCHANGED <<auxVars, limVars, ret, aelapsed, grants, fetchVars, dirVars,
                 coordVars>>

\* line 25: elapsed = now - self.last
T_L25(t) ==
  /\ apc[t] = "L25"
  /\ aelapsed' = [aelapsed EXCEPT ![t] = Elapsed(anow[t], last)]
  /\ apc' = [apc EXCEPT ![t] = "L26"]
  /\ UNCHANGED <<auxVars, limVars, ncalls, ret, anow, grants, fetchVars,
                 dirVars, coordVars>>

\* line 26: self.tokens = min(self.rate, self.tokens + elapsed * self.rate)
T_L26(t) ==
  /\ apc[t] = "L26"
  /\ tokens' = Refill(rate, tokens, aelapsed[t])
  /\ aelapsed' = [aelapsed EXCEPT ![t] = 0]
  /\ apc' = [apc EXCEPT ![t] = "L27"]
  /\ UNCHANGED <<auxVars, rate, last, clock, ncalls, ret, anow, grants,
                 fetchVars, dirVars, coordVars>>

\* line 27: self.last = now
T_L27(t) ==
  /\ apc[t] = "L27"
  /\ last' = anow[t]
  /\ anow' = [anow EXCEPT ![t] = 0]
  /\ apc' = [apc EXCEPT ![t] = "L29"]
  /\ UNCHANGED <<auxVars, rate, tokens, clock, ncalls, ret, aelapsed, grants,
                 fetchVars, dirVars, coordVars>>

\* lines 29 and 32: if self.tokens >= 1, else return False
T_L29(t) ==
  /\ apc[t] = "L29"
  /\ IF HasToken(tokens)
       THEN /\ apc' = [apc EXCEPT ![t] = "L30"]
            /\ ret' = ret
       ELSE /\ apc' = [apc EXCEPT ![t] = "idle"]
            /\ ret' = FALSE
  /\ UNCHANGED <<auxVars, limVars, ncalls, anow, aelapsed, grants, fetchVars,
                 dirVars, coordVars>>

\* lines 30-31: self.tokens -= 1; return True
T_L30(t) ==
  /\ apc[t] = "L30"
  /\ tokens' = Decrement(tokens)
  /\ ret' = TRUE
  /\ grants' = grants + 1
  /\ apc' = [apc EXCEPT ![t] = "idle"]
  /\ UNCHANGED <<auxVars, rate, last, clock, ncalls, anow, aelapsed,
                 fetchVars, dirVars, coordVars>>

NextRL ==
  \/ TickLim
  \/ \E t \in Threads : T_L24(t)
  \/ \E t \in Threads : T_L25(t)
  \/ \E t \in Threads : T_L26(t)
  \/ \E t \in Threads : T_L27(t)
  \/ \E t \in Threads : T_L29(t)
  \/ \E t \in Threads : T_L30(t)

SpecRL == InitLim /\ [][NextRL]_vars

\* ------------------------------------------------------ renameHelper.py
\* no RateLimiter has been constructed
NoLimiter ==
  /\ rate = 0
  /\ tokens = 0
  /\ last = 0
  /\ clock = 0
  /\ ncalls = 0
  /\ ret = FALSE
  /\ apc = [t \in Threads |-> "idle"]
  /\ anow = [t \in Threads |-> 0]
  /\ aelapsed = [t \in Threads |-> 0]
  /\ grants = 0

\* The files of a source directory and the names a mapping may give them.
\* The content of the source file <<i>> is i.
RenFiles == {<<1>>, <<2>>}
RenNames == RenFiles \cup {<<3>>, <<4>>}

\* the content of the file named n in directory d
ContentOf(d, n) == CHOOSE c \in ContentsOf({p \in d.files : p[1] = n}) : TRUE

\* os.remove(path)
RemoveFile(fs, n) == {p \in fs : p[1] # n}

\* the lists of the members of S, each once
Orders(S) ==
  {l \in [1..Cardinality(S) -> S] : \A i, j \in DOMAIN l : l[i] = l[j] => i = j}

\* the values of name_map: a list of one to MaxCopies new names
NameLists == UNION {Orders(S) : S \in {T \in SUBSET RenNames : Cardinality(T) \in 1..MaxCopies}}

\* name_map: {old_filename: [new_name1, new_name2, ...]}
NameMaps == UNION {[K -> NameLists] : K \in SUBSET RenFiles}

SrcDirs == {Dir({<<n, n[1]>> : n \in K}) : K \in SUBSET RenFiles}

\* mutant: dest_dir is used as it is found
R_Check_AsFound ==
  /\ rpc = "L20"
  /\ rpc' = "L31"
  /\ UNCHANGED <<batchVars, src_dir, dest_dir, dest_backup, dest_old, name_map,
                 ren_del_dir_existed, files, file, new_names, getVars, fnVars>>

\* lines 20-21: os.path.exists(dest_dir) and del_dir_existed
R_Check ==
  /\ rpc = "L20"
  /\ rpc' = IF ~dest_dir.exists THEN "L31"
            ELSE IF ren_del_dir_existed THEN "L23"
            ELSE "L28"
  /\ UNCHANGED <<batchVars, src_dir, dest_dir, dest_backup, dest_old, name_map,
                 ren_del_dir_existed, files, file, new_names, getVars, fnVars>>

\* line 23: shutil.rmtree(dest_dir)
R_Rmtree ==
  /\ rpc = "L23"
  /\ \E d \in RmtreeStep(dest_dir) :
       /\ dest_dir' = d
       /\ rpc' = IF d.exists THEN "L23" ELSE "L31"
  /\ UNCHANGED <<batchVars, src_dir, dest_backup, dest_old, name_map,
                 ren_del_dir_existed, files, file, new_names, getVars, fnVars>>

\* lines 27-28: os.rename(dest_dir, f"{dest_dir}_backup_{timestamp}"); renaming
\* a directory onto a directory that is not empty raises OSError
R_Backup ==
  /\ rpc = "L28"
  /\ IF dest_backup.exists /\ dest_backup.files # {}
       THEN /\ rpc' = "error"
            /\ UNCHANGED <<dest_dir, dest_backup>>
       ELSE /\ dest_backup' = dest_dir
            /\ dest_dir' = Absent
            /\ rpc' = "L31"
  /\ UNCHANGED <<batchVars, src_dir, dest_old, name_map, ren_del_dir_existed,
                 files, file, new_names, getVars, fnVars>>

\* line 31: shutil.copytree(src_dir, dest_dir, dirs_exist_ok=True) makes
\* dest_dir if it is not there and copies the files one after the other, over
\* the files of the same name
R_Copytree ==
  /\ rpc = "L31"
  /\ IF ~dest_dir.exists
       THEN /\ dest_dir' = Dir({})
            /\ rpc' = IF src_dir.files = {} THEN "L34" ELSE "L31"
       ELSE \E p \in src_dir.files \ dest_dir.files :
              /\ dest_dir' = Dir(CreateFile(dest_dir.files, p[1], p[2]))
              /\ rpc' = IF src_dir.files \ dest_dir.files = {p} THEN "L34" ELSE "L31"
  /\ UNCHANGED <<batchVars, src_dir, dest_backup, dest_old, name_map,
                 ren_del_dir_existed, files, file, new_names, getVars, fnVars>>

\* line 34: os.walk(dest_dir) lists the directory, in the order the operating
\* system returns, before the body of the loop runs
R_Walk ==
  /\ rpc = "L34"
  /\ files' \in Orders(NamesOf(dest_dir.files))
  /\ rpc' = "L35"
  /\ UNCHANGED <<batchVars, src_dir, dest_dir, dest_backup, dest_old, name_map,
                 ren_del_dir_existed, file, new_names, getVars, fnVars>>

\* mutant: only the first new name of the list is used
R_NextFile_FirstOnly ==
  /\ rpc = "L35"
  /\ IF files = << >>
       THEN /\ rpc' = "done"
            /\ file' = << >>
            /\ UNCHANGED <<files, new_names>>
       ELSE /\ file' = Head(files)
            /\ files' = Tail(files)
            /\ IF Head(files) \in DOMAIN name_map
                 THEN /\ new_names' = <<Head(name_map[Head(files)])>>
                      /\ rpc' = "L44"
                 ELSE /\ new_names' = << >>
                      /\ rpc' = "L35"
  /\ UNCHANGED <<batchVars, src_dir, dest_dir, dest_backup, dest_old, name_map,
                 ren_del_dir_existed, getVars, fnVars>>

\* lines 35-41: the next file of the list; if file in name_map:
\* new_names = name_map[file]
R_NextFile ==
  /\ rpc = "L35"
  /\ IF files = << >>
       THEN /\ rpc' = "done"
            /\ file' = << >>
            /\ UNCHANGED <<files, new_names>>
       ELSE /\ file' = Head(files)
            /\ files' = Tail(files)
            /\ IF Head(files) \in DOMAIN name_map
                 THEN /\ new_names' = name_map[Head(files)]
                      /\ rpc' = "L44"
                 ELSE /\ new_names' = << >>
                      /\ rpc' = "L35"
  /\ UNCHANGED <<batchVars, src_dir, dest_dir, dest_backup, dest_old, name_map,
                 ren_del_dir_existed, getVars, fnVars>>

\* mutant: the first copy is made by moving the original
R_Copy2_Move ==
  /\ rpc = "L44"
  /\ new_names # << >>
  /\ LET new_name == Head(new_names) IN
       IF new_name = file \/ ~PathExists(dest_dir, file)
         THEN /\ rpc' = "error"
              /\ UNCHANGED <<dest_dir, new_names>>
         ELSE \/ /\ dest_dir' = Dir(RenameFile(dest_dir.files, file, new_name))
                 /\ new_names' = Tail(new_names)
                 /\ rpc' = IF Tail(new_names) = << >> THEN "L50" ELSE "L44"
              \/ /\ dest_dir' \in {dest_dir,
                                   Dir(CreateFile(dest_dir.files, new_name, 0))}
                 /\ rpc' = "error"
                 /\ UNCHANGED new_names
  /\ UNCHANGED <<batchVars, src_dir, dest_backup, dest_old, name_map,
                 ren_del_dir_existed, files, file, getVars, fnVars>>

\* lines 44-46: for new_name in new_names: shutil.copy2(src_file, dest_file).
\* copy2 raises SameFileError when both paths name one file and
\* FileNotFoundError when src_file is gone; it may raise OSError before
\* dest_file is opened or while it is written.  Nothing catches the exception
R_Copy2 ==
  /\ rpc = "L44"
  /\ new_names # << >>
  /\ LET new_name == Head(new_names) IN
       IF new_name = file \/ ~PathExists(dest_dir, file)
         THEN /\ rpc' = "error"
              /\ UNCHANGED <<dest_dir, new_names>>
         ELSE \/ /\ dest_dir' = Dir(CreateFile(dest_dir.files, new_name,
                                               ContentOf(dest_dir, file)))
                 /\ new_names' = Tail(new_names)
                 /\ rpc' = IF Tail(new_names) = << >> THEN "L50" ELSE "L44"
              \/ /\ dest_dir' \in {dest_dir,
                                   Dir(CreateFile(dest_dir.files, new_name, 0))}
                 /\ rpc' = "error"
                 /\ UNCHANGED new_names
  /\ UNCHANGED <<batchVars, src_dir, dest_backup, dest_old, name_map,
                 ren_del_dir_existed, files, file, getVars, fnVars>>

\* mutant: the original is removed from the source tree
R_Remove_InSource ==
  /\ rpc = "L50"
  /\ IF PathExists(src_dir, file)
       THEN /\ src_dir' = Dir(RemoveFile(src_dir.files, file))
            /\ rpc' = "L35"
       ELSE /\ src_dir' = src_dir
            /\ rpc' = "error"
  /\ UNCHANGED <<batchVars, dest_dir, dest_backup, dest_old, name_map,
                 ren_del_dir_existed, files, file, new_names, getVars, fnVars>>

\* line 50: os.remove(src_file)
R_Remove ==
  /\ rpc = "L50"
  /\ IF PathExists(dest_dir, file)
       THEN /\ dest_dir' = Dir(RemoveFile(dest_dir.files, file))
            /\ rpc' = "L35"
       ELSE /\ dest_dir' = dest_dir
            /\ rpc' = "error"
  /\ UNCHANGED <<batchVars, src_dir, dest_backup, dest_old, name_map,
                 ren_del_dir_existed, files, file, new_names, getVars, fnVars>>

\* batch_rename_with_duplicate(src_dir, name_map, del_dir_existed) has been
\* called: lines 15-17 have run
InitRen ==
  /\ NoLimiter
  /\ NoBatch
  /\ rpc = "L20"
  /\ src_dir \in SrcDirs
  /\ dest_dir \in {Absent, OldDir}
  /\ dest_backup = Absent
  /\ dest_old = dest_dir
  /\ name_map \in NameMaps
  /\ ren_del_dir_existed \in BOOLEAN
  /\ files = << >>
  /\ file = << >>
  /\ new_names = << >>
  /\ NoGet
  /\ NoCall

NextRen ==
  \/ R_Check
  \/ R_Rmtree
  \/ R_Backup
  \/ R_Copytree
  \/ R_Walk
  \/ R_NextFile
  \/ R_Copy2
  \/ R_Remove

SpecRen == InitRen /\ [][NextRen]_vars

\* ------------------------------------------- download, then rename
\* The part of download_batch after its tasks have finished, followed by
\* batch_rename_with_duplicate on the directory that was published.

\* the staging directory after the URLs of the list ts, each with the derived
\* name <<1>>, have been committed one after the other
RECURSIVE Staged(_, _)
Staged(d, ts) ==
  IF ts = << >> THEN d
  ELSE Staged(Dir(CreateFile(d.files, _get_unique_filename(d, <<1>>), Head(ts))),
              Tail(ts))

\* the URLs of the set S in increasing order
RECURSIVE Ascending(_)
Ascending(S) ==
  IF S = {} THEN << >>
  ELSE LET m == CHOOSE x \in S : \A y \in S : x <= y
       IN  <<m>> \o Ascending(S \ {m})

\* every task has finished: the URLs of ok were fetched and committed, the
\* others failed with an HTTP error; no token was granted, the clock has not
\* advanced
AtBarrier(ok) ==
  /\ rate = BatchRate
  /\ tokens = 0
  /\ last = 0
  /\ clock = 0
  /\ ncalls = 0
  /\ ret = FALSE
  /\ apc = [t \in Threads |-> "idle"]
  /\ anow = [t \in Threads |-> 0]
  /\ aelapsed = [t \in Threads |-> 0]
  /\ grants = 0
  /\ fpc = [t \in Urls |-> "done"]
  /\ acq = [t \in Urls |-> FALSE]
  /\ fname = [t \in Urls |-> IF t \in ok THEN <<1>> ELSE << >>]
  /\ final = [t \in Urls |-> << >>]
  /\ result = [t \in Urls |-> IF t \in ok THEN "True" ELSE "False"]
  /\ exc = [t \in Urls |-> IF t \in ok THEN "none" ELSE "http"]
  /\ lock = 0
  /\ cpc = "L58"
  /\ tmpd = Staged(Dir({}), Ascending(ok))
  /\ subd = Absent
  /\ backupd = Absent
  /\ printed = Urls \ ok
  /\ retval = << >>

\* the mappings whose only key is the first derived name
PipeMaps == {m \in NameMaps : DOMAIN m \subseteq {<<1>>}}

InitPipe ==
  /\ \E ok \in SUBSET Urls : AtBarrier(ok)
  /\ max_workers \in {1, DefaultMaxWorkers}
  /\ del_dir_existed \in BOOLEAN
  /\ targetd \in {Absent, OldDir}
  /\ oldd = targetd
  /\ rpc = "idle"
  /\ src_dir = Absent
  /\ dest_dir \in {Absent, OldDir}
  /\ dest_backup = Absent
  /\ dest_old = dest_dir
  /\ name_map \in PipeMaps
  /\ ren_del_dir_existed \in BOOLEAN
  /\ files = << >>
  /\ file = << >>
  /\ new_names = << >>
  /\ NoGet
  /\ NoCall

\* batch_rename_with_duplicate is called with the published directory as
\* src_dir; lines 15-17 run
R_Call ==
  /\ cpc = "done"
  /\ rpc = "idle"
  /\ src_dir' = targetd
  /\ rpc' = "L20"
  /\ UNCHANGED <<batchVars, dest_dir, dest_backup, dest_old, name_map,
                 ren_del_dir_existed, files, file, new_names, getVars, fnVars>>

NextPipe ==
  \/ C_Wait
  \/ C_ExitPool
  \/ C_Move
  \/ C_Copy
  \/ C_RmSrc
  \/ C_Check
  \/ C_Rmtree
  \/ C_Backup
  \/ C_Rename
  \/ R_Call
  \/ NextRen

SpecPipe == InitPipe /\ [][NextPipe]_vars

\* ------------------------------------------- session.get, with retries
\* One session.get(url) of _download and the raise_for_status that follows.
\* The session sends through the adapter mounted for the URL's prefix: the
\* adapter of lines 99-107 for https://, the session's default adapter, which
\* does not retry, for http://.  An adapter hands the request to urllib3 with
\* its Retry object: an attempt that ends in a connection or read error, or in
\* a response that is_retry accepts, decrements total and is repeated after
\* the backoff unless total has fallen below zero, in which case the call
\* raises.  Redirects are followed by the session, each hop a request of its
\* own, and are left out.

\* line 105: status_forcelist
StatusForcelist == {500, 502, 503, 504}

\* the statuses after which urllib3 honours a Retry-After header
RetryAfterStatus == {413, 429, 503}

\* what one request ends in: status 0 stands for no response (connection
\* refused, timeout), retry_after for a Retry-After header in the response
Outcomes ==
  {[status |-> st, retry_after |-> FALSE] : st \in {0, 200, 404, 429, 503}}
    \cup {[status |-> st, retry_after |-> TRUE] : st \in {429, 503}}

\* the Retry object of the adapter that serves the URL: total
TotalOf(m) == IF m THEN RetryTotal ELSE 0

\* the Retry object of the adapter that serves the URL: status_forcelist
ForcelistOf(m) == IF m THEN StatusForcelist ELSE {}

\* mutant: every error status is retried
IsRetry_AnyError(m, tot, o) == o.status >= 400

\* Retry.is_retry for a GET: the status is in status_forcelist, or retries
\* are left and the response has a Retry-After header with a status that
\* honours it
IsRetry(m, tot, o) ==
  \/ o.status \in ForcelistOf(m)
  \/ tot > 0 /\ o.retry_after /\ o.status \in RetryAfterStatus

\* line 111: one request of session.get is sent and ends
G_Send ==
  /\ gpc = "send"
  /\ \E o \in Outcomes :
       /\ attempts' = Append(attempts, o)
       /\ IF o.status = 0 \/ IsRetry(mounted, total, o)
            THEN /\ total' = total - 1
                 /\ gpc' = IF total - 1 < 0 THEN "raised" ELSE "send"
            ELSE /\ total' = total
                 /\ gpc' = "response"
  /\ UNCHANGED <<batchVars, renVars, mounted, fnVars>>

\* line 112: response.raise_for_status() raises HTTPError for a status of 400
\* and above
G_RaiseForStatus ==
  /\ gpc = "response"
  /\ gpc' = IF attempts[Len(attempts)].status >= 400 THEN "raised" ELSE "ok"
  /\ UNCHANGED <<batchVars, renVars, mounted, total, attempts, fnVars>>

\* lines 98-110: the session is made and the adapter mounted for https://;
\* the URL is an https:// or an http:// one
InitGet ==
  /\ NoLimiter
  /\ NoBatch
  /\ NoRename
  /\ NoCall
  /\ gpc = "send"
  /\ mounted \in BOOLEAN
  /\ total = TotalOf(mounted)
  /\ attempts = << >>

NextGet == G_Send \/ G_RaiseForStatus

SpecGet == InitGet /\ [][NextGet]_vars

\* ------------------------------------------------------ _extract_filename
\* A string is a sequence of characters.  The characters of a name are "a",
\* ".", " " and "%2E", the percent-encoding of "."; a percent-encoding counts
\* as one character of the decoded string.
NameChars == {"a", ".", "%2E"}
HeaderChars == {"a", "%2E", " "}

\* the strings over cs of at most n characters
Strings(cs, n) == UNION {[1..k -> cs] : k \in 0..n}

\* urllib.parse.unquote
unquote(str) == [i \in DOMAIN str |-> IF str[i] = "%2E" THEN "." ELSE str[i]]

\* str.strip()
RECURSIVE strip(_)
strip(str) ==
  IF str = << >> THEN str
  ELSE IF Head(str) = " " THEN strip(Tail(str))
  ELSE IF str[Len(str)] = " " THEN strip(SubSeq(str, 1, Len(str) - 1))
  ELSE str

\* The headers of a response: Content-Disposition is absent, or present with
\* the string that follows "filename=" (empty when the header has no such
\* parameter or gives it no character); Content-Type is absent (empty) or a
\* media type, which parameters may follow.
\* what a search returns: no match, or the string that matched
NoMatch == << >>
Matched(m) == Len(m) > 0
Dispositions ==
  {[present |-> FALSE, filename |-> << >>]}
    \cup {[present |-> TRUE, filename |-> n] : n \in Strings(HeaderChars, 2)}
ContentTypes ==
  {<< >>, <<"image/jpeg">>, <<"image/png">>, <<"image/png", ";", "q=1">>,
   <<"text/html">>}
Uuids == {"u1", "u2"}

\* lines 139-142: re.search(...).group(1): the first run of characters after
\* "filename="
Search(value) == IF value = << >> THEN NoMatch ELSE <<value>>

\* line 152: headers.get('Content-Type', '').partition(';')[0].strip()
MediaType(ct) == IF ct = << >> THEN "" ELSE ct[1]

\* lines 153-160: ext_map.get(content_type, '.bin')
Ext(content_type) ==
  CASE content_type = "image/jpeg" -> ".jpg"
    [] content_type = "image/png" -> ".png"
    [] content_type = "image/gif" -> ".gif"
    [] content_type = "image/webp" -> ".webp"
    [] content_type = "application/pdf" -> ".pdf"
    [] OTHER -> ".bin"

\* lines 145-149: the last segment of the URL path, decoded, if it has a "."
\* and more than 4 characters
FromPath(basename) ==
  LET filename == unquote(basename)
  IN  IF (\E i \in DOMAIN filename : filename[i] = ".") /\ Len(filename) > 4
        THEN <<filename>>
        ELSE NoMatch

\* mutant: the URL path is tried before the header
_extract_filename_PathFirst(basename, headers, uuid) ==
  IF Matched(FromPath(basename))
    THEN FromPath(basename)[1]
  ELSE IF headers.disposition.present /\ Matched(Search(headers.disposition.filename))
    THEN unquote(strip(Search(headers.disposition.filename)[1]))
  ELSE <<"file_", uuid, Ext(MediaType(headers.content_type))>>

\* lines 135-161, on the last segment of the URL path and the headers; uuid
\* is the value of uuid.uuid4().hex
_extract_filename(basename, headers, uuid) ==
  IF headers.disposition.present /\ Matched(Search(headers.disposition.filename))
    THEN unquote(strip(Search(headers.disposition.filename)[1]))
  ELSE IF Matched(FromPath(basename))
    THEN FromPath(basename)[1]
  ELSE <<"file_", uuid, Ext(MediaType(headers.content_type))>>

\* _extract_filename is about to be called
InitExtract ==
  /\ NoLimiter
  /\ NoBatch
  /\ NoRename
  /\ NoGet
  /\ fn_args \in [basename : Strings(NameChars, MaxNameLen),
                   headers : [disposition : Dispositions,
                              content_type : ContentTypes]]
  /\ fn_ret = << >>

\* the call returns
N_Extract ==
  /\ fn_ret = << >>
  /\ \E uuid \in Uuids :
       fn_ret' = <<_extract_filename(fn_args.basename, fn_args.headers, uuid)>>
  /\ UNCHANGED <<batchVars, renVars, getVars, fn_args>>

SpecExtract == InitExtract /\ [][N_Extract]_vars

\* --------------------------------------------------- _get_unique_filename
\* the names a directory may hold: "1.ext", "2.ext" and "1.ext" with up to two
\* suffixes
SuffixedNames ==
  {<<1>>, <<2>>} \cup {<<1, k>> : k \in 1..MaxSuffix}
    \cup {<<1, k, 1>> : k \in 1..MaxSuffix}

\* _get_unique_filename is about to be called
InitUnique ==
  /\ NoLimiter
  /\ NoBatch
  /\ NoRename
  /\ NoGet
  /\ fn_args \in [save_dir : {Dir({<<n, 1>> : n \in S}) : S \in SUBSET SuffixedNames},
                   filename : {<<1>>, <<1, 1>>, <<2>>}]
  /\ fn_ret = << >>

\* the call returns; it has made no change to save_dir
N_Unique ==
  /\ fn_ret = << >>
  /\ fn_ret' = <<_get_unique_filename(fn_args.save_dir, fn_args.filename),
                 fn_args.save_dir>>
  /\ UNCHANGED <<batchVars, renVars, getVars, fn_args>>

SpecUnique == InitUnique /\ [][N_Unique]_vars

\* ------------------------------------------------------------------ claims
AllFetched == \A t \in Urls : fpc[t] = "done"
Succeeded == {t \in Urls : result[t] = "True"}
Failed == {t \in Urls : result[t] = "False"}
\* the fetchers whose scratch file was created and never renamed
Orphaned == {t \in Urls : fpc[t] = "done" /\ exc[t] \in {"stream", "fs"}}
IsTemp(n) == n[1] = 0
CommittedBy(d, t) == {p \in d.files : p[2] = t /\ ~IsTemp(p[1])}
BeforePublish == cpc \in {"L56", "L58", "L55"}

\* C1: the publish step starts only after every submitted _download task has
\* finished, and while any fetcher of the batch is still running the target
\* path holds what it held before the batch, never the staging content.
C1_Barrier ==
  /\ ~BeforePublish => AllFetched
  /\ ~AllFetched => targetd = oldd /\ tmpd.exists /\ ~subd.exists

\* the barrier is passed by a batch with one successful and one failed fetch
C1_Witness ==
  /\ cpc = "L62"
  /\ AllFetched
  /\ Succeeded # {}
  /\ Failed # {}

\* C2: once all fetchers have finished, the staging directory contains exactly
\* as many files as there were successful fetches.
C2_StagedEqualsSuccesses ==
  (AllFetched /\ cpc \in {"L58", "L55", "L62"})
    => Cardinality(tmpd.files) = Cardinality(Succeeded)

\* C3: every fetcher that succeeds has its own file in the staging directory,
\* under the name it derived or that name with a suffix _k, also when several
\* fetchers derive the same name: no committed file is overwritten.
C3_NoOverwrite ==
  (tmpd.exists /\ cpc \in {"L58", "L55", "L62"}) =>
    \A t \in Succeeded :
      /\ Cardinality(CommittedBy(tmpd, t)) = 1
      /\ \A p \in CommittedBy(tmpd, t) :
           \/ p[1] = fname[t]
           \/ \E k \in 1..NumUrls : p[1] = Append(fname[t], k)

\* two fetchers derived the same name and both committed their file
C3_Witness ==
  \E t1, t2 \in Urls :
    /\ t1 # t2
    /\ fname[t1] = <<1>> /\ fname[t2] = <<1>>
    /\ <<<<1>>, t1>> \in tmpd.files
    /\ <<<<1, 1>>, t2>> \in tmpd.files

\* C4: an exception raised while fetching one URL becomes the result False of
\* that URL; no task ends with an exception, download_batch is not aborted,
\* and the run goes on until the staging directory is published.
C4_FailureIsolated ==
  /\ \A t \in Urls : (fpc[t] = "done" /\ exc[t] # "none") => result[t] = "False"
  /\ \A t \in Urls : result[t] # "raised"
  /\ cpc # "error"
  /\ cpc = "done" \/ ENABLED Next

\* the batch is published although the body of one URL failed while streaming
C4_Witness ==
  /\ cpc = "done"
  /\ \E t \in Urls : exc[t] = "stream" /\ result[t] = "False"
  /\ Succeeded # {}

C6_PriorContent ==
  /\ (cpc = "done" /\ oldd.exists) =>
       /\ targetd.exists
       /\ \A p \in targetd.files : p[2] >= 0
       /\ \A t \in Succeeded : Cardinality(CommittedBy(targetd, t)) = 1
       /\ Cardinality(targetd.files) = Cardinality(Succeeded) + Cardinality(Orphaned)
       /\ ~del_dir_existed => backupd = oldd
       /\ del_dir_existed => ~backupd.exists
  /\ (oldd.exists /\ ~del_dir_existed) => (targetd = oldd \/ backupd = oldd)
  /\ (\E p \in targetd.files : p[2] >= 0) => \A q \in targetd.files : q[2] >= 0

\* the prior content is in the backup and the target holds new files
C6_Witness ==
  /\ cpc = "done"
  /\ oldd.exists
  /\ ~del_dir_existed
  /\ backupd = oldd
  /\ Succeeded # {}
  /\ \A t \in Succeeded : CommittedBy(targetd, t) # {}

NewComplete ==
  /\ cpc = "done"
  /\ targetd.exists
  /\ \A p \in targetd.files : p[2] >= 0
  /\ \A t \in Succeeded : CommittedBy(targetd, t) # {}

\* C7 as stated: at every step the target path holds the complete old
\* content, or is absent, or holds the complete new staged content.
C7_ThreeConditions ==
  \/ targetd = oldd
  \/ ~targetd.exists
  \/ NewComplete

\* C7 as amended: at every step the target path holds only old content (all of
\* it, or, while shutil.rmtree is deleting it under del_dir_existed = True,
\* the part not yet deleted), or is absent, or holds the complete new staged
\* content; it never holds old and new files together nor a part of the new.
C7_NoMixture ==
  \/ targetd = oldd
  \/ /\ targetd.exists
     /\ targetd.files \subseteq oldd.files
     /\ del_dir_existed
     /\ cpc = "L75"
  \/ ~targetd.exists
  \/ NewComplete

\* the old content is seen partly deleted
C7_Witness ==
  /\ cpc = "L75"
  /\ del_dir_existed
  /\ targetd.exists
  /\ targetd.files # {}
  /\ targetd.files # oldd.files
  /\ subd.exists

\* C8: acquire(), called sequentially, refills by elapsed * rate capped at
\* rate, then returns True and takes exactly one token if there is at least
\* one, and otherwise returns False and takes none; 0 <= tokens <= rate always.
C8_AcquireContract ==
  /\ [](tokens >= 0 /\ tokens <= rate * TicksPerSec)
  /\ [][ncalls' = ncalls + 1 =>
          LET sum == tokens + (clock - last) * rate
              refilled == IF sum > rate * TicksPerSec THEN rate * TicksPerSec ELSE sum
          IN  /\ ret' = (refilled >= TicksPerSec)
              /\ ret' => tokens' = refilled - TicksPerSec
              /\ ~ret' => tokens' = refilled
              /\ last' = clock]_vars

\* a call found the bucket full and took one token
C8_Witness ==
  /\ ncalls >= 2
  /\ rate >= 2
  /\ ret
  /\ last = clock
  /\ tokens = rate * TicksPerSec - TicksPerSec

\* C9: no fetcher issues its HTTP GET unless one of its own acquire() calls
\* has returned True beforehand.
C9_TokenBeforeGet ==
  [][\A t \in Urls : (fpc[t] = "L111" /\ fpc'[t] # "L111") => acq[t]]_vars

\* C10: under any interleaving of acquire() calls by several threads, tokens
\* stays within [0, rate] and the calls that returned True never outnumber the
\* whole tokens accrued since the limiter was constructed.
C10_BucketSafe ==
  /\ tokens >= 0
  /\ tokens <= rate * TicksPerSec
  /\ grants * TicksPerSec <= clock * rate

\* ------------------------------------------------- claims on renameHelper.py
\* the new names listed under key k
NewNamesOf(k) == {name_map[k][i] : i \in DOMAIN name_map[k]}

\* the files of the copied tree whose name is a key
MatchedFiles == NamesOf(src_dir.files) \cap DOMAIN name_map

\* no new name is a key, and no new name is listed under two keys
DisjointMapping ==
  /\ \A k \in DOMAIN name_map : NewNamesOf(k) \cap DOMAIN name_map = {}
  /\ \A k, l \in DOMAIN name_map : k # l => NewNamesOf(k) \cap NewNamesOf(l) = {}

\* every matched file has been replaced by its copies
Duplicated(k) ==
  /\ \A n \in NewNamesOf(k) : <<n, ContentOf(src_dir, k)>> \in dest_dir.files
  /\ k \notin NamesOf(dest_dir.files)

\* C11 as stated: for every mapping, once batch_rename_with_duplicate has
\* returned, every file whose name is a key has one copy per new name, each
\* with the content the file had in the source tree, and no file of the key's
\* name remains.
C11_EveryMapping ==
  rpc = "done" => \A k \in MatchedFiles : Duplicated(k)

\* C11 as amended: the same, for the mappings in which no new name is a key
\* and no new name is listed under two keys.
C11_DisjointMapping ==
  (rpc = "done" /\ DisjointMapping) => \A k \in MatchedFiles : Duplicated(k)

\* a finished run in which a matched file was copied twice beside a file
\* that is not in the mapping
C11_Witness ==
  /\ rpc = "done"
  /\ DisjointMapping
  /\ Cardinality(src_dir.files) = 2
  /\ \E k \in MatchedFiles : Cardinality(NewNamesOf(k)) = 2 /\ Duplicated(k)

\* C12: once batch_rename_with_duplicate has returned, every file of the
\* destination tree whose name is not a key is still there under its name with
\* the content it was copied with, whatever the new names of the mapping are.
C12_UnmappedUntouched ==
  rpc = "done" =>
    \A p \in src_dir.files : p[1] \notin DOMAIN name_map => p \in dest_dir.files

\* the walk of the destination tree is under way
Walking == rpc \in {"L35", "L44", "L50"}

\* C13: in the walk, a file whose name is a key disappears only in a step
\* before which every new name of its list holds a complete copy of it; and
\* when a copy raises, the file it was copying is still there.
C13_DeleteAfterCopies ==
  [][/\ \A k \in DOMAIN name_map :
          (Walking /\ PathExists(dest_dir, k) /\ ~PathExists(dest_dir', k)) =>
            \A n \in NewNamesOf(k) : <<n, ContentOf(dest_dir, k)>> \in dest_dir.files
     /\ (rpc' = "error" /\ new_names' # << >>) => PathExists(dest_dir', file')
    ]_vars

\* the original has been removed after both of its copies were written
C13_Witness ==
  /\ rpc = "L35"
  /\ file \in DOMAIN name_map
  /\ Len(name_map[file]) = 2
  /\ ~PathExists(dest_dir, file)
  /\ \A n \in NewNamesOf(file) : PathExists(dest_dir, n)

OldContent(d) == {p \in d.files : p[2] < 0}
NewContent(d) == {p \in d.files : p[2] >= 0}

\* what became of the directory old found at a path, under the policy del
Resolved(old, del, backup) ==
  IF old.exists /\ ~del THEN backup = old ELSE ~backup.exists

\* C15: neither the publish target nor the rename destination ever holds
\* files of an earlier run together with files of this run; when download_batch
\* and batch_rename_with_duplicate have returned, each directory holds only
\* files of this run, and the directory found there was removed (delete
\* policy) or is kept whole under the backup name (backup policy).
C15_NoSilentMerge ==
  /\ OldContent(targetd) = {} \/ NewContent(targetd) = {}
  /\ OldContent(dest_dir) = {} \/ NewContent(dest_dir) = {}
  /\ cpc = "done" =>
       /\ OldContent(targetd) = {}
       /\ Resolved(oldd, del_dir_existed, backupd)
  /\ rpc = "done" =>
       /\ OldContent(dest_dir) = {}
       /\ Resolved(dest_old, ren_del_dir_existed, dest_backup)

\* both calls have returned; the publish target was found and removed, the
\* rename destination was found and is kept as a backup
C15_Witness ==
  /\ rpc = "done"
  /\ oldd.exists /\ del_dir_existed /\ ~backupd.exists
  /\ dest_old.exists /\ ~ren_del_dir_existed /\ dest_backup = dest_old
  /\ NewContent(targetd) # {}
  /\ NewContent(dest_dir) # {}

\* ------------------------------------------- further claims on _download
\* the fetchers inside "with lock": at the existence check or at the rename
InSection == {t \in Urls : fpc[t] \in {"L126", "L127"}}

\* C16: at most one fetcher is inside the resolve-and-commit section, it holds
\* the lock, and the name it resolved is still free when it renames: no other
\* fetcher's check or rename comes between its check and its rename.
C16_OneInSection ==
  /\ Cardinality(InSection) <= 1
  /\ \A t \in InSection :
       /\ lock = t
       /\ fpc[t] = "L127" => ~PathExists(tmpd, final[t])

\* a fetcher is between its check and its rename while another, which derived
\* the same name, waits for the lock
C16_Witness ==
  \E t1, t2 \in Urls :
    /\ fpc[t1] = "L127"
    /\ fpc[t2] = "L125"
    /\ fname[t1] = fname[t2]

\* an attempt that got a 4xx response without a Retry-After header
ClientError(o) == o.status \in 400..499 /\ ~o.retry_after

\* C17 as stated: at most 3 requests are sent for a URL, a request follows
\* another only after a response with status 500, 502, 503 or 504, and a 4xx
\* response is the last one and ends in failure.
C17_ThreeAttempts ==
  /\ Len(attempts) <= 3
  /\ \A i \in 1..Len(attempts) - 1 : attempts[i].status \in StatusForcelist
  /\ \A i \in 1..Len(attempts) :
       attempts[i].status \in 400..499 =>
         i = Len(attempts) /\ gpc \in {"response", "raised"}

\* C17 as amended: at most 4 requests are sent for an https URL (the first and
\* 3 retries) and 1 for an http URL; a request follows another only after a
\* response with status 500, 502, 503 or 504, after a request that got no
\* response, or after a response with a Retry-After header; a 4xx response
\* without that header is the last one and ends in failure.
C17_FourAttempts ==
  /\ Len(attempts) <= (IF mounted THEN 4 ELSE 1)
  /\ \A i \in 1..Len(attempts) - 1 :
       \/ attempts[i].status \in {500, 502, 503, 504}
       \/ attempts[i].status = 0
       \/ attempts[i].retry_after
  /\ \A i \in 1..Len(attempts) :
       ClientError(attempts[i]) =>
         i = Len(attempts) /\ gpc \in {"response", "raised"}

\* the fourth request for an https URL has been answered with a 404, after
\* three requests that were retried
C17_Witness ==
  /\ mounted
  /\ Len(attempts) = 4
  /\ attempts[1].status = 503
  /\ attempts[4].status = 404
  /\ gpc = "raised"

\* ------------------------------------------- the state of the target path
\* Published is the target found with the content of an earlier run (whole,
\* or the rest of it while rmtree deletes it); PublishedNew is the target
\* with this batch's content once download_batch has returned.
TargetState(c, sub, target, backup) ==
  IF target.exists
    THEN IF c = "done" /\ OldContent(target) = {} THEN "PublishedNew"
         ELSE "Published"
    ELSE IF oldd.exists
           THEN IF backup = oldd THEN "BackedUp" ELSE "Deleted"
           ELSE IF sub.exists THEN "Staged" ELSE "NotExist"

Transitions ==
  {<<"NotExist", "Staged">>, <<"Staged", "PublishedNew">>,
   <<"Published", "BackedUp">>, <<"BackedUp", "PublishedNew">>,
   <<"Published", "Deleted">>, <<"Deleted", "PublishedNew">>}

\* C18: a call of download_batch that does not raise ends with the target
\* published with this batch's content; the state of the target changes only
\* along NotExist -> Staged -> PublishedNew, Published -> BackedUp ->
\* PublishedNew or Published -> Deleted -> PublishedNew; and the coordinator
\* goes on to back up or delete the target exactly when the target path
\* exists at that moment, deleting under del_dir_existed and backing up
\* otherwise.
C18_PublishMachine ==
  [][LET s == TargetState(cpc, subd, targetd, backupd)
         n == TargetState(cpc', subd', targetd', backupd')
     IN  /\ s # n => <<s, n>> \in Transitions
         /\ cpc' = "done" => n = "PublishedNew"
         /\ (cpc = "L66" /\ cpc' # cpc) =>
              /\ cpc' \in {"L75", "L80"} <=> targetd.exists
              /\ cpc' = "L75" <=> (targetd.exists /\ del_dir_existed)
              /\ cpc' = "L82" <=> ~targetd.exists
    ]_vars

\* a first run has published: the target, which was not there, holds a
\* fetched file
C18_Witness ==
  /\ cpc = "done"
  /\ ~oldd.exists
  /\ TargetState(cpc, subd, targetd, backupd) = "PublishedNew"
  /\ Succeeded # {}

\* --------------------------------------------- claims on the two functions
\* the Content-Disposition header gives a filename
HeaderYields == 
  /\ fn_args.headers.disposition.present
  /\ fn_args.headers.disposition.filename # << >>

\* the last segment of the URL path, decoded, has a "." and more than 4
\* characters
PathYields ==
  /\ Len(fn_args.basename) > 4
  /\ \E i \in DOMAIN fn_args.basename : fn_args.basename[i] \in {".", "%2E"}

\* C19: _extract_filename returns the decoded Content-Disposition filename
\* whenever the header gives one, whatever the URL; otherwise the decoded last
\* segment of the URL path when it has a "." and more than 4 characters;
\* otherwise "file_<random>" with the extension of the Content-Type, ".bin"
\* when the type is absent or not in the table.
C19_ThreeTiers ==
  fn_ret # << >> =>
    LET name == fn_ret[1]
        ct == fn_args.headers.content_type
    IN  /\ HeaderYields =>
             name = unquote(strip(fn_args.headers.disposition.filename))
        /\ (~HeaderYields /\ PathYields) => name = unquote(fn_args.basename)
        /\ (~HeaderYields /\ ~PathYields) =>
             /\ Len(name) = 3
             /\ name[1] = "file_"
             /\ name[2] \in Uuids
             /\ name[3] = (IF ct # << >> /\ ct[1] = "image/png" THEN ".png"
                           ELSE IF ct # << >> /\ ct[1] = "image/jpeg" THEN ".jpg"
                           ELSE ".bin")

\* the header gives a filename while the URL path has a usable name too, and
\* the header's name was returned
C19_Witness ==
  /\ fn_ret # << >>
  /\ HeaderYields
  /\ PathYields
  /\ fn_args.headers.disposition.filename = <<"a", "%2E">>
  /\ fn_ret[1] = <<"a", ".">>

\* the names of the files of save_dir
Taken == NamesOf(fn_args.save_dir.files)

\* C20: _get_unique_filename returns the requested name when no file has it,
\* and otherwise the name with the suffix _k for the smallest k >= 1 that no
\* file has; no file has the returned name; save_dir is as it was.
C20_SmallestFree ==
  fn_ret # << >> =>
    LET name == fn_ret[1]
        filename == fn_args.filename
    IN  /\ name \notin Taken
        /\ filename \notin Taken => name = filename
        /\ filename \in Taken =>
             \E k \in 1..(MaxSuffix + 1) :
               /\ name = Append(filename, k)
               /\ \A j \in 1..(k - 1) : Append(filename, j) \in Taken
        /\ fn_ret[2] = fn_args.save_dir

\* the name and its first suffix are taken, and the second suffix was returned
C20_Witness ==
  /\ fn_ret # << >>
  /\ fn_args.filename = <<1>>
  /\ {<<1>>, <<1, 1>>} \subseteq Taken
  /\ fn_ret[1] = <<1, 2>>

\* ------------------------------------------- a newly constructed limiter
\* the tokens that accrue in the time from a to b
Accrued(a, b) == (b - a) * rate

\* C21 as stated: the limiter is constructed with zero tokens; a first
\* acquire() less than 1/rate seconds after construction returns False; and
\* the first acquire() that returns True comes when the time elapsed since
\* the last call has accrued at least one whole token.
C21_WholeTokenSinceLastCall ==
  /\ [](ncalls = 0 => tokens = 0)
  /\ [][ncalls' = ncalls + 1 =>
          /\ (ncalls = 0 /\ Accrued(0, clock) < OneToken) => ~ret'
          /\ (grants = 0 /\ ret') => Accrued(last, clock) >= OneToken]_vars

\* C21 as amended: the limiter is constructed with zero tokens; a first
\* acquire() less than 1/rate seconds after construction returns False; and
\* the first acquire() that returns True comes when the time elapsed since
\* construction has accrued at least one whole token (the part of a token
\* accrued before a call that returned False is kept).
C21_WholeTokenSinceConstruction ==
  /\ [](ncalls = 0 => tokens = 0)
  /\ [][ncalls' = ncalls + 1 =>
          /\ (ncalls = 0 /\ Accrued(0, clock) < OneToken) => ~ret'
          /\ (grants = 0 /\ ret') => Accrued(0, clock) >= OneToken]_vars

\* the first acquire() came after construction, before a whole token had
\* accrued, and returned False, keeping the part of a token
C21_Witness ==
  /\ ncalls = 1
  /\ last > 0
  /\ Accrued(0, last) < OneToken
  /\ ~ret
  /\ grants = 0
  /\ tokens = Accrued(0, last)
====
